---- MODULE Spec2Model ----
(***************************************************************************)
(* Freshdesk MCP connector (src/main.py): the HTTP adapter fd_get /        *)
(* fd_post / fd_put, the pagination helper paginate_tickets and the seven  *)
(* tool handlers, one invocation at a time.  Every upstream round trip is  *)
(* two steps: the request is issued (Issue) and its outcome arrives (one   *)
(* Recv action per handler position).  The outcome of a round trip is an   *)
(* input, chosen from UpstreamOutcomes.                                    *)
(***************************************************************************)
EXTENDS Integers, Sequences, FiniteSets, TLC

(***************************************************************************)
(* Bounds of the model.                                                    *)
(***************************************************************************)
MaxPerPage == 2      \* per_page of a direct paginate_tickets run: 0..MaxPerPage
MaxMaxPages == 2     \* max_pages of a direct paginate_tickets run: -1..MaxMaxPages
MaxTicketId == 2     \* ticket ids 1..MaxTicketId

(***************************************************************************)
(* Program constants.                                                      *)
(***************************************************************************)
DefaultPerPage == 50     \* paginate_tickets(per_page=50)
DefaultMaxPages == 5     \* paginate_tickets(max_pages=5)
DescLimit == 200         \* description_text[:200]
ClosedStatus == 5        \* close_ticket: {"status": 5}
DefaultPriority == 1     \* create_ticket(priority=1)
DefaultStatus == 2       \* create_ticket(status=2)

Min(a, b) == IF a < b THEN a ELSE b

(***************************************************************************)
(* JSON / Python values.  Every value is a tagged record, so that values   *)
(* of different Python types can be compared.  A str is a sequence of      *)
(* characters; None is JNull.  Raise(e) is not a value: it marks a call    *)
(* that ended by raising the exception e.                                  *)
(***************************************************************************)
JNull == [tag |-> "null"]
JInt(n) == [tag |-> "int", i |-> n]
JBool(b) == [tag |-> "bool", b |-> b]
JStr(s) == [tag |-> "str", s |-> s]
JList(l) == [tag |-> "list", l |-> l]
JDict(f) == [tag |-> "dict", d |-> f]
Raise(e) == [tag |-> "raise", exc |-> e]

IsRaise(v) == v.tag = "raise"
IsDict(v) == v.tag = "dict"
HasKey(v, k) == IsDict(v) /\ k \in DOMAIN v.d

\* An error record {error: string}; msg is the message's text.
ErrorRecord(msg) == JDict([error |-> JStr(msg)])
IsErrorRecord(v) == /\ IsDict(v)
                    /\ DOMAIN v.d = {"error"}
                    /\ v.d.error.tag = "str"

\* Python `"error" in data`: key membership for a dict, element membership
\* for a list, TypeError for None and numbers.
\* (MutInError is a faulty variant: an error record is not recognised.)
MutInError(data) ==
  CASE data.tag = "dict" -> JBool(FALSE)
    [] data.tag = "list" -> JBool(\E i \in 1..Len(data.l) : data.l[i] = JStr(<<"error">>))
    [] OTHER -> Raise("TypeError")
InError(data) ==
  CASE data.tag = "dict" -> JBool("error" \in DOMAIN data.d)
    [] data.tag = "list" -> JBool(\E i \in 1..Len(data.l) : data.l[i] = JStr(<<"error">>))
    [] OTHER -> Raise("TypeError")

\* dict.get(k, default); AttributeError when the receiver is not a dict.
DictGet(v, k, default) ==
  IF ~IsDict(v) THEN Raise("AttributeError")
  ELSE IF k \in DOMAIN v.d THEN v.d[k] ELSE default

\* Python truthiness of a value (`if query:`, `if description:`, `not tickets`).
Truthy(v) ==
  CASE v.tag = "null" -> FALSE
    [] v.tag = "int" -> v.i # 0
    [] v.tag = "bool" -> v.b
    [] v.tag = "str" -> Len(v.s) > 0
    [] v.tag = "list" -> Len(v.l) > 0
    [] v.tag = "dict" -> DOMAIN v.d # {}

(***************************************************************************)
(* The upstream.  One round trip ends in one of these outcomes: a 2xx      *)
(* answer with a decoded JSON body, a non-2xx status, a connection error,  *)
(* a timeout, or a 2xx answer whose body is not JSON.                      *)
(***************************************************************************)
Ok(body) == [kind |-> "ok", body |-> body]
HttpError(status) == [kind |-> "http", status |-> status]
ConnError == [kind |-> "conn"]
Timeout == [kind |-> "timeout"]
Malformed == [kind |-> "malformed"]

\* The failed round trips: rate limited, not found, and the transport faults.
Failures == << HttpError(429), HttpError(404), ConnError, Timeout, Malformed >>

\* str(e) of the exception requests raises for a failed round trip.
ExcText(o) ==
  CASE o.kind = "http" -> << ToString(o.status), " Error for url" >>
    [] o.kind = "conn" -> << "ConnectionError" >>
    [] o.kind = "timeout" -> << "ReadTimeout" >>
    [] o.kind = "malformed" -> << "JSONDecodeError" >>

(***************************************************************************)
(* HTTP adapter: the value fd_get / fd_post / fd_put returns for the       *)
(* outcome o of its single requests.get / post / put call.                 *)
(***************************************************************************)
fd_get(o) ==
  CASE o.kind = "ok" -> o.body
    [] o.kind = "http" -> ErrorRecord(<< "HTTP ", ToString(o.status), ": ", "r.text" >>)
    [] OTHER -> ErrorRecord(ExcText(o))

fd_post(o) ==
  IF o.kind = "ok" THEN o.body ELSE ErrorRecord(ExcText(o))

fd_put(o) ==
  IF o.kind = "ok" THEN o.body ELSE ErrorRecord(ExcText(o))

(***************************************************************************)
(* Strings.  A query is a sequence of characters; str.strip() removes the  *)
(* leading and trailing whitespace.                                        *)
(***************************************************************************)
Whitespace == { " ", "\t" }

RECURSIVE LStrip(_)
LStrip(s) == IF s # <<>> /\ Head(s) \in Whitespace THEN LStrip(Tail(s)) ELSE s

RECURSIVE RStrip(_)
RStrip(s) ==
  IF s # <<>> /\ s[Len(s)] \in Whitespace THEN RStrip(SubSeq(s, 1, Len(s) - 1)) ELSE s

\* Faulty variant of strip(): nothing is removed.
MutStrip(s) == s
Strip(s) == RStrip(LStrip(s))

\* s[:n] of a str or list.
Take(s, n) == SubSeq(s, 1, Min(Len(s), n))

\* The text an f-string puts for a value.
Format(v) ==
  CASE v.tag = "int" -> ToString(v.i)
    [] v.tag = "null" -> "None"
    [] OTHER -> "?"

Domain == "example.freshdesk.com"

\* f"https://{FRESHDESK_DOMAIN}/a/tickets/{id}"
TicketUrl(id) == JStr(<< "https://", Domain, "/a/tickets/", Format(id) >>)

(***************************************************************************)
(* Requests.  An endpoint is its path template and, where it has one, the  *)
(* ticket id put into it.                                                  *)
(***************************************************************************)
Endpoint(path) == [path |-> path]
TicketEndpoint(path, id) == [path |-> path, id |-> id]

Request(method, endpoint, data) == [method |-> method, endpoint |-> endpoint, data |-> data]

\* params of paginate_tickets' request for one page.
PageParams(query, page, per_page) ==
  IF Len(query) > 0
    THEN JDict([page |-> JInt(page), per_page |-> JInt(per_page),
                query |-> JStr(<< "\"" >> \o query \o << "\"" >>)])
    ELSE JDict([page |-> JInt(page), per_page |-> JInt(per_page)])

\* data of create_ticket.
CreateData(c) ==
  JDict([email |-> c.email, subject |-> c.subject, description |-> c.description,
         priority |-> c.priority, status |-> c.status])

\* data of update_ticket: the sparse patch.
UpdateData(c) ==
  JDict((IF c.status # JNull THEN [status |-> c.status] ELSE <<>>)
        @@ (IF c.priority # JNull THEN [priority |-> c.priority] ELSE <<>>)
        @@ (IF Truthy(c.description) THEN [description |-> c.description] ELSE <<>>))

\* data of reply.
ReplyData(c) == JDict([body |-> c.body, private |-> c.private])

\* data of close_ticket (MutCloseData is a faulty variant: another status).
MutCloseData == JDict([status |-> JInt(ClosedStatus - 1)])
CloseData == JDict([status |-> JInt(ClosedStatus)])

(***************************************************************************)
(* Bodies the upstream serves.                                             *)
(***************************************************************************)
OpenStatus == DefaultStatus

\* A ticket as GET/PUT/POST tickets serve it.  "full": every field set;
\* "sparse": only id and subject; "nulls": every field null.
TicketBody(id, status, variant) ==
  CASE variant = "full" ->
         JDict([id |-> JInt(id), subject |-> JStr(<< "s" >>),
                description_text |-> JStr(<< "d" >>), status |-> JInt(status),
                priority |-> JInt(DefaultPriority), type |-> JNull,
                created_at |-> JStr(<< "t0" >>), updated_at |-> JStr(<< "t1" >>),
                requester_id |-> JInt(7), responder_id |-> JNull,
                group_id |-> JInt(9), tags |-> JList(<< JStr(<< "vip" >>) >>)])
    [] variant = "sparse" ->
         JDict([id |-> JInt(id), subject |-> JStr(<< "s" >>)])
    [] OTHER ->
         JDict([id |-> JNull, subject |-> JNull, description_text |-> JNull,
                status |-> JNull, priority |-> JNull, type |-> JNull,
                created_at |-> JNull, updated_at |-> JNull, requester_id |-> JNull,
                responder_id |-> JNull, group_id |-> JNull, tags |-> JNull])

LongText == [i \in 1..(DescLimit + 1) |-> "x"]

\* Ticket i of page p of a search.  The first ticket of a page has a
\* description longer than DescLimit (null on a "nulldesc" page), the second
\* has no description_text key, the others a short one.
PageTicket(p, i, variant) ==
  LET base == [id |-> JInt(1000 * p + i), subject |-> JStr(<< "s" >>)]
  IN  CASE i = 1 /\ variant = "nulldesc" -> JDict(base @@ [description_text |-> JNull])
        [] i = 1 /\ variant # "nulldesc" -> JDict(base @@ [description_text |-> JStr(LongText)])
        [] i = 2 -> JDict(base)
        [] OTHER -> JDict(base @@ [description_text |-> JStr(<< "d" >>)])

ResultsBody(p, n, variant) ==
  JDict([results |-> JList([i \in 1..n |-> PageTicket(p, i, variant)]),
         total |-> JInt(n)])

ConversationBody(i, variant) ==
  IF variant = "full"
    THEN JDict([id |-> JInt(i), body_text |-> JStr(<< "b" >>),
                from_email |-> JStr(<< "a@b" >>), to_emails |-> JList(<<>>),
                incoming |-> JBool(TRUE), created_at |-> JStr(<< "t0" >>),
                user_id |-> JInt(7)])
    ELSE JDict([id |-> JInt(i), body_text |-> JNull])

\* The page sizes the upstream serves for a request of per_page tickets.
PageSizes(per_page) ==
  IF per_page = DefaultPerPage THEN { 0, 23, per_page } ELSE 0..(per_page + 1)

\* The kinds of page served: search (the only caller that reads the tickets)
\* is also served pages whose first ticket has a null description_text.
PageVariants(per_page) ==
  IF per_page = DefaultPerPage THEN { "plain", "nulldesc" } ELSE { "plain" }

(***************************************************************************)
(* The outcomes of one round trip of the request req, as choices           *)
(* [k, n, v], and the outcome a choice stands for.  closed is the set of   *)
(* tickets the upstream holds as closed.                                   *)
(***************************************************************************)
Choice(k, n, v) == [k |-> k, n |-> n, v |-> v]

Choices(req) ==
  { Choice("fail", i, "") : i \in DOMAIN Failures }
  \cup
  CASE req.endpoint.path = "search/tickets" ->
         { Choice("page", n, v) : n \in PageSizes(req.data.d.per_page.i),
                                  v \in PageVariants(req.data.d.per_page.i) }
         \cup { Choice("odd", 0, v) : v \in { "noresults", "list", "null" } }
    [] req.endpoint.path = "tickets/{id}" /\ req.method = "GET" ->
         { Choice("ticket", 0, v) : v \in { "full", "sparse", "nulls" } }
         \cup { Choice("odd", 0, v) : v \in { "list", "null" } }
    [] req.endpoint.path = "tickets/{id}/conversations" ->
         { Choice("convs", n, v) : n \in 0..1, v \in { "full", "sparse" } }
         \cup { Choice("odd", 0, v) : v \in { "dict", "null" } }
    [] OTHER ->
         { Choice("record", 0, "full"), Choice("odd", 0, "null") }

OddBody(v) ==
  CASE v = "noresults" -> JDict([total |-> JInt(0)])
    [] v = "list" -> JList(<< JDict([id |-> JInt(1)]) >>)
    [] v = "dict" -> JDict([total |-> JInt(0)])
    [] OTHER -> JNull

\* The status the upstream holds for a ticket after the request req.
StatusAfter(req, closed) ==
  IF req.method = "PUT" /\ "status" \in DOMAIN req.data.d
    THEN req.data.d.status.i
    ELSE IF req.endpoint.id \in closed THEN ClosedStatus ELSE OpenStatus

Outcome(req, c, closed) ==
  CASE c.k = "fail" -> Failures[c.n]
    [] c.k = "odd" -> Ok(OddBody(c.v))
    [] c.k = "page" -> Ok(ResultsBody(req.data.d.page.i, c.n, c.v))
    [] c.k = "ticket" ->
         Ok(TicketBody(req.endpoint.id, StatusAfter(req, closed), c.v))
    [] c.k = "convs" -> Ok(JList([i \in 1..c.n |-> ConversationBody(i, c.v)]))
    [] c.k = "record" ->
         IF req.endpoint.path = "tickets/{id}"
           THEN Ok(TicketBody(req.endpoint.id, StatusAfter(req, closed), "full"))
           ELSE IF req.endpoint.path = "tickets"
             THEN Ok(TicketBody(100, req.data.d.status.i, "full"))
             ELSE Ok(JList(<< JDict([id |-> JInt(1)]) >>))

(***************************************************************************)
(* paginate_tickets: one pass of the loop body after fd_get returned data. *)
(* ctl is "raise" (an exception leaves the loop), "return" (break, or the  *)
(* loop test fails after page += 1) or "again" (the next page is asked).   *)
(***************************************************************************)
LoopStep(ctl, all, page, exc) == [ctl |-> ctl, all |-> all, page |-> page, exc |-> exc]

\* page += 1 (faulty variant: a page is skipped).
MutNextPage(page) == page + 2
NextPage(page) == page + 1

\* len(tickets) < per_page: the page is the last one (faulty variant: a full
\* page is taken for the last one).
MutLastPage(tickets, per_page) == Len(tickets.l) <= per_page
LastPage(tickets, per_page) == Len(tickets.l) < per_page

\* `if "error" in data: break` (faulty variant: the error is raised).
MutOnError(all, page) == LoopStep("raise", all, page, "UpstreamError")
OnError(all, page) == LoopStep("return", all, page, "")

PaginateStep(data, all, page, per_page, max_pages) ==
  LET inerr == InError(data)
      tickets == DictGet(data, "results", JList(<<>>))
  IN  IF IsRaise(inerr) THEN LoopStep("raise", all, page, inerr.exc)
      ELSE IF inerr.b THEN OnError(all, page)
      ELSE IF IsRaise(tickets) THEN LoopStep("raise", all, page, tickets.exc)
      ELSE IF ~Truthy(tickets) THEN LoopStep("return", all, page, "")
      ELSE IF tickets.tag # "list" THEN LoopStep("raise", all, page, "TypeError")
      ELSE IF LastPage(tickets, per_page)
        THEN LoopStep("return", all \o tickets.l, page, "")
      ELSE IF NextPage(page) <= max_pages
        THEN LoopStep("again", all \o tickets.l, NextPage(page), "")
      ELSE LoopStep("return", all \o tickets.l, NextPage(page), "")

(***************************************************************************)
(* search: the summary of one ticket and the result of the tool.           *)
(***************************************************************************)
Summary(t) ==
  LET desc == DictGet(t, "description_text", JStr(<<>>))
  IN  IF IsRaise(desc) THEN desc
      ELSE IF desc.tag # "str" THEN Raise("TypeError")
      ELSE JDict([id |-> DictGet(t, "id", JNull),
                  subject |-> DictGet(t, "subject", JNull),
                  description |-> JStr(Take(desc.s, DescLimit) \o << ".", ".", "." >>),
                  status |-> DictGet(t, "status", JNull),
                  priority |-> DictGet(t, "priority", JNull),
                  created_at |-> DictGet(t, "created_at", JNull),
                  updated_at |-> DictGet(t, "updated_at", JNull),
                  url |-> TicketUrl(DictGet(t, "id", JNull))])

\* A list comprehension: the list of the items' images, or the first
\* exception an item raises.
Comprehension(items) ==
  IF \E i \in DOMAIN items : IsRaise(items[i])
    THEN items[CHOOSE i \in DOMAIN items :
                 IsRaise(items[i]) /\ \A j \in 1..(i - 1) : ~IsRaise(items[j])]
    ELSE JList(items)

SearchResults(tickets) ==
  LET results == Comprehension([i \in DOMAIN tickets |-> Summary(tickets[i])])
  IN  IF IsRaise(results) THEN results ELSE JDict([results |-> results])

\* query.strip() is empty.
Blank(query) == ~Truthy(JStr(Strip(query)))

(***************************************************************************)
(* fetch.                                                                  *)
(***************************************************************************)
\* The items a for-loop over v visits: a list's elements, a dict's keys;
\* TypeError when v is not iterable.
Iterate(v) ==
  CASE v.tag = "list" -> JList(v.l)
    [] v.tag = "dict" -> JList([i \in 1..Cardinality(DOMAIN v.d) |-> JStr(<< "key" >>)])
    [] v.tag = "str" -> JList([i \in DOMAIN v.s |-> JStr(<< v.s[i] >>)])
    [] OTHER -> Raise("TypeError")

ConversationSummary(c) ==
  IF ~IsDict(c) THEN Raise("AttributeError")
  ELSE JDict([id |-> DictGet(c, "id", JNull),
              body_text |-> DictGet(c, "body_text", JStr(<<>>)),
              from_email |-> DictGet(c, "from_email", JNull),
              to_emails |-> DictGet(c, "to_emails", JNull),
              incoming |-> DictGet(c, "incoming", JNull),
              created_at |-> DictGet(c, "created_at", JNull)])

\* conversations after `if isinstance(conversations, dict) and "error" in
\* conversations: conversations = []`.
\* (MutTolerated is a faulty variant: the error record is kept.)
MutTolerated(conversations) == conversations
Tolerated(conversations) ==
  IF IsDict(conversations) /\ "error" \in DOMAIN conversations.d
    THEN JList(<<>>) ELSE conversations

FetchDetail(ticket, conversations, ticket_id) ==
  LET items == Iterate(conversations)
      convs == IF IsRaise(items) THEN items
               ELSE Comprehension([i \in DOMAIN items.l |-> ConversationSummary(items.l[i])])
  IN  IF ~IsDict(ticket) THEN Raise("AttributeError")
      ELSE IF IsRaise(convs) THEN convs
      ELSE JDict([id |-> DictGet(ticket, "id", JNull),
                  subject |-> DictGet(ticket, "subject", JNull),
                  description |-> DictGet(ticket, "description_text", JNull),
                  status |-> DictGet(ticket, "status", JNull),
                  priority |-> DictGet(ticket, "priority", JNull),
                  type |-> DictGet(ticket, "type", JNull),
                  created_at |-> DictGet(ticket, "created_at", JNull),
                  updated_at |-> DictGet(ticket, "updated_at", JNull),
                  requester_id |-> DictGet(ticket, "requester_id", JNull),
                  responder_id |-> DictGet(ticket, "responder_id", JNull),
                  group_id |-> DictGet(ticket, "group_id", JNull),
                  tags |-> DictGet(ticket, "tags", JList(<<>>)),
                  conversations |-> convs,
                  metadata |-> JDict([source |-> JStr(<< "freshdesk" >>),
                                      url |-> TicketUrl(JInt(ticket_id))])])

(***************************************************************************)
(* State.                                                                  *)
(***************************************************************************)
VARIABLES
  call,         \* the tool invocation in progress and its arguments
  pc,           \* "idle", "send" (about to call requests.*), "wait", "done"
  requests,     \* the requests issued by this invocation, in order
  inflight,     \* the number of requests issued and not yet answered
  responses,    \* the upstream's choice of outcome for each of them, in order
  agents,       \* overview: agents
  ticket,       \* fetch: ticket
  page,         \* paginate_tickets: page
  all_tickets,  \* paginate_tickets: all_tickets
  result,       \* the value the invocation returned, or Raise(e)
  closed        \* upstream: the tickets whose status is closed

vars == << call, pc, requests, inflight, responses, agents, ticket, page,
           all_tickets, result, closed >>

TicketIds == 1..MaxTicketId

\* The query strings tried: "", " ", " \t", "x", " x", "x\t".
Queries == { <<>>, << " " >>, << " ", "\t" >>, << "x" >>, << " ", "x" >>, << "x", "\t" >> }

Init ==
  /\ call = [tool |-> "none"]
  /\ pc = "idle"
  /\ requests = <<>>
  /\ inflight = 0
  /\ responses = <<>>
  /\ agents = JNull
  /\ ticket = JNull
  /\ page = 0
  /\ all_tickets = <<>>
  /\ result = JNull
  /\ closed = {}

\* The handler of tool c starts and runs up to its first adapter call.
Enter(c) ==
  /\ pc = "idle"
  /\ call' = c
  /\ pc' = "send"
  /\ UNCHANGED << requests, inflight, responses, agents, ticket, page,
                  all_tickets, result, closed >>

\* The handler returns v, or raises when v is Raise(e).
Finish(v) ==
  /\ pc' = "done"
  /\ result' = v

\* The request of the adapter call the handler is about to make.
NextRequest ==
  CASE call.tool = "overview" ->
         Request("GET", Endpoint(IF Len(responses) = 0 THEN "agents" ELSE "groups"), JNull)
    [] call.tool \in { "search", "paginate_tickets" } ->
         Request("GET", Endpoint("search/tickets"),
                 PageParams(call.query, page, call.per_page))
    [] call.tool = "fetch" ->
         Request("GET",
                 TicketEndpoint(IF Len(responses) = 0 THEN "tickets/{id}"
                                ELSE "tickets/{id}/conversations", call.ticket_id),
                 JNull)
    [] call.tool = "create_ticket" ->
         Request("POST", Endpoint("tickets"), CreateData(call))
    [] call.tool = "update_ticket" ->
         Request("PUT", TicketEndpoint("tickets/{id}", call.ticket_id), UpdateData(call))
    [] call.tool = "reply" ->
         Request("POST", TicketEndpoint("tickets/{id}/reply", call.ticket_id),
                 ReplyData(call))
    [] call.tool = "close_ticket" ->
         Request("PUT", TicketEndpoint("tickets/{id}", call.ticket_id), CloseData)

\* requests.get / requests.post / requests.put is called.
requests_send ==
  /\ pc = "send"
  /\ requests' = Append(requests, NextRequest)
  /\ inflight' = inflight + 1
  /\ pc' = "wait"
  /\ UNCHANGED << call, responses, agents, ticket, page, all_tickets, result,
                  closed >>

\* The round trip of the last request ends with the outcome the upstream
\* chose, c.
Answered(c) ==
  /\ inflight' = inflight - 1
  /\ responses' = Append(responses, c)
  /\ UNCHANGED << call, requests >>

\* The upstream's tickets after a PUT was answered with o.
ClosedAfter(req, o) ==
  IF o.kind = "ok" /\ "status" \in DOMAIN req.data.d
    THEN IF req.data.d.status.i = ClosedStatus
           THEN closed \cup { req.endpoint.id }
           ELSE closed \ { req.endpoint.id }
    ELSE closed

Awaiting(tool) == pc = "wait" /\ call.tool = tool

LastRequest == requests[Len(requests)]

(***************************************************************************)
(* overview                                                                *)
(***************************************************************************)
overview == Enter([tool |-> "overview"])

overview_agents ==
  /\ Awaiting("overview") /\ Len(responses) = 0
  /\ \E c \in Choices(LastRequest) :
       LET o == Outcome(LastRequest, c, closed)
       IN  Answered(c) /\ agents' = fd_get(o)
  /\ pc' = "send"
  /\ UNCHANGED << ticket, page, all_tickets, result, closed >>

overview_groups ==
  /\ Awaiting("overview") /\ Len(responses) = 1
  /\ \E c \in Choices(LastRequest) :
       LET o == Outcome(LastRequest, c, closed)
       IN  /\ Answered(c)
           /\ Finish(JDict([company |-> JDict([domain |-> JStr(<< Domain >>)]),
                            agents |-> agents, groups |-> fd_get(o)]))
  /\ UNCHANGED << agents, ticket, page, all_tickets, closed >>

(***************************************************************************)
(* paginate_tickets and search                                             *)
(***************************************************************************)
\* What the caller of paginate_tickets does with the list it returns.
AfterPaginate(all) ==
  IF call'.tool = "search" THEN SearchResults(all) ELSE JList(all)

\* all_tickets = [], page = 1 and the first test of `while page <= max_pages`.
StartPaginate(c) ==
  /\ pc = "idle"
  /\ call' = c
  /\ page' = 1
  /\ all_tickets' = <<>>
  /\ IF 1 <= c.max_pages
       THEN pc' = "send" /\ UNCHANGED result
       ELSE Finish(AfterPaginate(<<>>))
  /\ UNCHANGED << requests, inflight, responses, agents, ticket, closed >>

paginate_tickets ==
  \E q \in { <<>>, << "x" >> }, pp \in 0..MaxPerPage, mp \in (-1)..MaxMaxPages :
    StartPaginate([tool |-> "paginate_tickets", query |-> q, per_page |-> pp,
                   max_pages |-> mp])

search ==
  \E q \in Queries :
    IF Blank(q)
      THEN /\ pc = "idle"
           /\ call' = [tool |-> "search", query |-> q, per_page |-> DefaultPerPage,
                       max_pages |-> DefaultMaxPages]
           /\ Finish(JDict([results |-> JList(<<>>)]))
           /\ UNCHANGED << requests, inflight, responses, agents, ticket, page,
                           all_tickets, closed >>
      ELSE StartPaginate([tool |-> "search", query |-> q, per_page |-> DefaultPerPage,
                          max_pages |-> DefaultMaxPages])

paginate_page ==
  /\ pc = "wait" /\ call.tool \in { "search", "paginate_tickets" }
  /\ \E c \in Choices(LastRequest) :
       LET o == Outcome(LastRequest, c, closed)
           data == fd_get(o)
           step == PaginateStep(data, all_tickets, page, call.per_page, call.max_pages)
       IN  /\ Answered(c)
           /\ all_tickets' = step.all
           /\ page' = step.page
           /\ CASE step.ctl = "raise" -> Finish(Raise(step.exc))
                [] step.ctl = "return" -> Finish(AfterPaginate(step.all))
                [] OTHER -> pc' = "send" /\ UNCHANGED result
  /\ UNCHANGED << agents, ticket, closed >>

(***************************************************************************)
(* fetch                                                                   *)
(***************************************************************************)
fetch == \E id \in TicketIds : Enter([tool |-> "fetch", ticket_id |-> id])

fetch_ticket ==
  /\ Awaiting("fetch") /\ Len(responses) = 0
  /\ \E c \in Choices(LastRequest) :
       LET o == Outcome(LastRequest, c, closed)
           inerr == InError(fd_get(o))
       IN  /\ Answered(c)
           /\ ticket' = fd_get(o)
           /\ IF IsRaise(inerr) THEN Finish(inerr)
              ELSE IF inerr.b THEN Finish(fd_get(o))
              ELSE pc' = "send" /\ UNCHANGED result
  /\ UNCHANGED << agents, page, all_tickets, closed >>

fetch_conversations ==
  /\ Awaiting("fetch") /\ Len(responses) = 1
  /\ \E c \in Choices(LastRequest) :
       LET o == Outcome(LastRequest, c, closed)
           conversations == fd_get(o)
       IN  /\ Answered(c)
           /\ Finish(FetchDetail(ticket, Tolerated(conversations), call.ticket_id))
  /\ UNCHANGED << agents, ticket, page, all_tickets, closed >>

(***************************************************************************)
(* create_ticket, update_ticket, reply, close_ticket                       *)
(***************************************************************************)
Texts == { JStr(<<>>), JStr(<< "d" >>) }

create_ticket ==
  \E d \in Texts, p \in { DefaultPriority, 3 }, st \in { DefaultStatus, 3 } :
    Enter([tool |-> "create_ticket", email |-> JStr(<< "a@b" >>),
           subject |-> JStr(<< "s" >>), description |-> d,
           priority |-> JInt(p), status |-> JInt(st)])

create_ticket_return ==
  /\ Awaiting("create_ticket")
  /\ \E c \in Choices(LastRequest) :
       LET o == Outcome(LastRequest, c, closed)
       IN  Answered(c) /\ Finish(fd_post(o))
  /\ UNCHANGED << agents, ticket, page, all_tickets, closed >>

update_ticket ==
  \E id \in TicketIds,
     st \in { JNull, JInt(0), JInt(ClosedStatus) },
     p \in { JNull, JInt(0) },
     d \in { JNull } \cup Texts :
    Enter([tool |-> "update_ticket", ticket_id |-> id, status |-> st,
           priority |-> p, description |-> d])

update_ticket_return ==
  /\ Awaiting("update_ticket")
  /\ \E c \in Choices(LastRequest) :
       LET o == Outcome(LastRequest, c, closed)
       IN  /\ Answered(c)
           /\ Finish(fd_put(o))
           /\ closed' = ClosedAfter(LastRequest, o)
  /\ UNCHANGED << agents, ticket, page, all_tickets >>

reply ==
  \E id \in TicketIds, private \in BOOLEAN :
    Enter([tool |-> "reply", ticket_id |-> id, body |-> JStr(<< "b" >>),
           private |-> JBool(private)])

reply_return ==
  /\ Awaiting("reply")
  /\ \E c \in Choices(LastRequest) :
       LET o == Outcome(LastRequest, c, closed)
       IN  Answered(c) /\ Finish(fd_post(o))
  /\ UNCHANGED << agents, ticket, page, all_tickets, closed >>

close_ticket == \E id \in TicketIds : Enter([tool |-> "close_ticket", ticket_id |-> id])

close_ticket_return ==
  /\ Awaiting("close_ticket")
  /\ \E c \in Choices(LastRequest) :
       LET o == Outcome(LastRequest, c, closed)
       IN  /\ Answered(c)
           /\ Finish(fd_put(o))
           /\ closed' = ClosedAfter(LastRequest, o)
  /\ UNCHANGED << agents, ticket, page, all_tickets >>

\* The invocation is over; the connector keeps nothing of it.
Return ==
  /\ pc = "done"
  /\ call' = [tool |-> "none"]
  /\ pc' = "idle"
  /\ requests' = <<>>
  /\ inflight' = 0
  /\ responses' = <<>>
  /\ agents' = JNull
  /\ ticket' = JNull
  /\ page' = 0
  /\ all_tickets' = <<>>
  /\ result' = JNull
  /\ UNCHANGED closed

Next ==
  \/ overview \/ overview_agents \/ overview_groups
  \/ paginate_tickets \/ search \/ paginate_page
  \/ fetch \/ fetch_ticket \/ fetch_conversations
  \/ create_ticket \/ create_ticket_return
  \/ update_ticket \/ update_ticket_return
  \/ reply \/ reply_return
  \/ close_ticket \/ close_ticket_return
  \/ requests_send
  \/ Return

Spec == Init /\ [][Next]_vars

\* A handler is straight-line synchronous code: the adapter call it has
\* reached is made, and requests.get(..., timeout=20) ends, so an outcome
\* arrives and the loop body of paginate_tickets runs.
FairSpec == Spec /\ WF_vars(requests_send) /\ WF_vars(paginate_page)

(***************************************************************************)
(* What the claims speak of.                                               *)
(***************************************************************************)
\* The outcome of round trip i of the invocation, and what the adapter
\* returned for it.
Served(i) == Outcome(requests[i], responses[i], closed)

Returned(i) ==
  CASE requests[i].method = "GET" -> fd_get(Served(i))
    [] requests[i].method = "POST" -> fd_post(Served(i))
    [] OTHER -> fd_put(Served(i))

Failed(i) == Served(i).kind # "ok"

Tools == { "overview", "search", "fetch", "create_ticket", "update_ticket", "reply",
           "close_ticket" }

Done(tool) == pc = "done" /\ call.tool = tool

\* C1: no exception crosses the tool boundary: every tool invocation ends
\* by returning a JSON value, whatever the outcomes of its round trips, and
\* every failed round trip is returned by the adapter as {error: string}.
C1_NoExceptionCrossesBoundary ==
  /\ (pc = "done" /\ call.tool \in Tools) => ~IsRaise(result)
  /\ \A i \in DOMAIN responses : Failed(i) => IsErrorRecord(Returned(i))

\* C2: a round trip answered 429 is retried, up to 3 attempts in total:
\* when the invocation is over, every 429 answer that was not the third
\* attempt of its request is followed by one more attempt of that request.
Is429(i) == Served(i).kind = "http" /\ Served(i).status = 429

ThirdAttempt(i) ==
  /\ i >= 3
  /\ requests[i - 1] = requests[i] /\ requests[i - 2] = requests[i]
  /\ Is429(i - 1) /\ Is429(i - 2)

C2_RetryOn429 ==
  pc = "done" =>
    \A i \in DOMAIN responses :
      (Is429(i) /\ ~ThirdAttempt(i)) =>
        (i < Len(requests) /\ requests[i + 1] = requests[i])

(***************************************************************************)
(* Pages of a paginate_tickets run, as the claims describe them.           *)
(***************************************************************************)
InPaginate == call.tool = "paginate_tickets" \/ (call.tool = "search" /\ page > 0)

\* Page i was an error record, or a results object (a JSON object with a
\* list of results, or none).
ErrorPage(i) == Failed(i)
ResultsPage(i) == Served(i).kind = "ok" /\ IsDict(Served(i).body)
WellFormedPage(i) == ErrorPage(i) \/ ResultsPage(i)

\* The result list of page i.
PageItems(i) ==
  IF ResultsPage(i) /\ "results" \in DOMAIN Served(i).body.d
    THEN Served(i).body.d.results.l ELSE <<>>

\* Its length: the size of the page the upstream chose to serve.
PageSize(i) == IF responses[i].k = "page" THEN responses[i].n ELSE 0
EmptyPage(i) == ResultsPage(i) /\ PageSize(i) = 0
ShortPageAt(i) == ResultsPage(i) /\ 0 < PageSize(i) /\ PageSize(i) < call.per_page
StopPage(i) == ErrorPage(i) \/ EmptyPage(i) \/ ShortPageAt(i)

RECURSIVE ConcatPages(_)
ConcatPages(k) == IF k <= 0 THEN <<>> ELSE ConcatPages(k - 1) \o PageItems(k)

\* The k of the claim: the first short page, or one less than the first
\* error or empty page, or max_pages.
LastIncluded ==
  IF \E i \in DOMAIN responses : StopPage(i)
    THEN LET first == CHOOSE i \in DOMAIN responses :
                        StopPage(i) /\ \A j \in 1..(i - 1) : ~StopPage(j)
         IN  IF ShortPageAt(first) THEN first ELSE first - 1
    ELSE IF call.max_pages > 0 THEN call.max_pages ELSE 0

PaginateReturned ==
  /\ pc = "done" /\ InPaginate
  /\ \A i \in DOMAIN responses : WellFormedPage(i)

\* The result is the concatenation of the pages 1..k of the claim.
ConcatenatesPages ==
  LET k == LastIncluded
  IN  /\ k <= Len(responses)
      /\ all_tickets = ConcatPages(k)
      /\ call.tool = "paginate_tickets" => result = JList(all_tickets)
      /\ k <= (IF call.max_pages > 0 THEN call.max_pages ELSE 0)

NoOversizePage == \A i \in DOMAIN responses : PageSize(i) <= call.per_page

\* C3 as stated: paginate_tickets returns the in-order concatenation of the
\* result lists of pages 1..k, k the first short page, or one less than the
\* first error or empty page, or max_pages; its length is at most
\* per_page * max_pages when no page has more than per_page items.
C3_AsStated ==
  PaginateReturned =>
    /\ ConcatenatesPages
    /\ NoOversizePage => Len(all_tickets) <= call.per_page * call.max_pages

\* C3 as amended: the same, the length being at most
\* per_page * max(max_pages, 0) when no page has more than per_page items.
C3_PaginateConcatenation ==
  PaginateReturned =>
    /\ ConcatenatesPages
    /\ NoOversizePage =>
         Len(all_tickets) <= call.per_page * (IF call.max_pages > 0 THEN call.max_pages ELSE 0)

\* Pages of sizes 50, 50, 23 were served to a search and 123 tickets came back.
C3_Witness ==
  /\ PaginateReturned /\ call.tool = "search"
  /\ Len(responses) = 3
  /\ PageSize(1) = 50 /\ PageSize(2) = 50 /\ PageSize(3) = 23
  /\ Len(all_tickets) = 123
  /\ ~IsRaise(result) /\ Len(result.d.results.l) = 123

\* C4: for a query that is empty or only whitespace search returns
\* {results: []} and issues no request; for any other query it issues at
\* least one request, to search/tickets.
OnlyWhitespace(q) == \A i \in DOMAIN q : q[i] \in Whitespace

C4_BlankQueryNoRequest ==
  call.tool = "search" =>
    IF OnlyWhitespace(call.query)
      THEN /\ requests = <<>>
           /\ pc = "done"
           /\ result = JDict([results |-> JList(<<>>)])
      ELSE /\ pc = "done" => Len(requests) >= 1
           /\ \A i \in DOMAIN requests :
                requests[i].endpoint = Endpoint("search/tickets")

C4_Witness ==
  /\ Done("search") /\ call.query = << " ", "\t" >>
  /\ requests = <<>> /\ result = JDict([results |-> JList(<<>>)])

\* C5: when the adapter's GET of tickets/{id} yields an error record, fetch
\* returns that record unchanged and never asks for the conversations; the
\* conversations are asked for only after a ticket request that succeeded.
C5_FetchErrorUnchanged ==
  call.tool = "fetch" =>
    /\ (Len(responses) >= 1 /\ Failed(1)) =>
         /\ pc = "done" /\ Len(requests) = 1
         /\ result = Returned(1) /\ IsErrorRecord(result)
    /\ Len(requests) >= 1 =>
         requests[1] = Request("GET", TicketEndpoint("tickets/{id}", call.ticket_id), JNull)
    /\ Len(requests) >= 2 =>
         /\ Len(responses) >= 1 /\ ~Failed(1)
         /\ requests[2] = Request("GET",
              TicketEndpoint("tickets/{id}/conversations", call.ticket_id), JNull)
    /\ Len(requests) <= 2

C5_Witness ==
  /\ Done("fetch") /\ Len(responses) = 1
  /\ Served(1) = HttpError(404)
  /\ Len(requests) = 1 /\ IsErrorRecord(result)

\* C6: when the ticket request succeeds with a ticket and the conversations
\* request yields an error record, fetch returns the ticket detail record
\* with no error field and conversations = [], its ticket fields those of
\* the ticket.
DetailFields ==
  { "id", "subject", "status", "priority", "type", "created_at", "updated_at",
    "requester_id", "responder_id", "group_id" }

TicketReceived == Len(responses) >= 1 /\ ~Failed(1) /\ IsDict(ticket) /\ ~HasKey(ticket, "error")

C6_ConversationFailureTolerated ==
  (Done("fetch") /\ Len(responses) = 2 /\ TicketReceived /\ Failed(2)) =>
    /\ IsDict(result) /\ ~HasKey(result, "error")
    /\ result.d.conversations = JList(<<>>)
    /\ \A k \in DetailFields :
         result.d[k] = (IF k \in DOMAIN ticket.d THEN ticket.d[k] ELSE JNull)
    /\ result.d.description =
         (IF "description_text" \in DOMAIN ticket.d THEN ticket.d.description_text ELSE JNull)
    /\ result.d.tags = (IF "tags" \in DOMAIN ticket.d THEN ticket.d.tags ELSE JList(<<>>))
    /\ result.d.metadata.d.url = TicketUrl(JInt(call.ticket_id))

C6_Witness ==
  /\ Done("fetch") /\ Len(responses) = 2 /\ TicketReceived
  /\ Served(2) = Timeout
  /\ ticket = Served(1).body /\ HasKey(ticket, "tags")
  /\ IsDict(result) /\ result.d.conversations = JList(<<>>)

\* C7: the body of update_ticket's PUT holds exactly the fields the caller
\* supplied (passed with a non-null value), with the supplied values.
Supplied == { k \in { "status", "priority", "description" } : call[k] # JNull }

C7_SparsePatch ==
  (call.tool = "update_ticket" /\ Len(requests) >= 1) =>
    /\ Len(requests) = 1
    /\ requests[1].method = "PUT"
    /\ requests[1].endpoint = TicketEndpoint("tickets/{id}", call.ticket_id)
    /\ IsDict(requests[1].data)
    /\ DOMAIN requests[1].data.d = Supplied
    /\ \A k \in Supplied : requests[1].data.d[k] = call[k]

\* C8: close_ticket issues exactly one request, a PUT to tickets/{id} with
\* the body {"status": 5}, whatever the ticket's state, and returns the
\* adapter's result unchanged.
C8_CloseTicketPatch ==
  call.tool = "close_ticket" =>
    /\ Len(requests) <= 1
    /\ pc \in { "wait", "done" } =>
         requests = << Request("PUT", TicketEndpoint("tickets/{id}", call.ticket_id),
                               JDict([status |-> JInt(5)])) >>
    /\ pc = "done" =>
         /\ Len(responses) = 1
         /\ IF Failed(1) THEN IsErrorRecord(result) ELSE result = Served(1).body

\* A ticket that was closed already is closed again, and the request fails.
C8_Witness ==
  /\ Done("close_ticket") /\ call.ticket_id \in closed
  /\ Failed(1) /\ IsErrorRecord(result)
  /\ requests[1].data = JDict([status |-> JInt(5)])

\* The requests of a paginate_tickets run: pages 1, 2, 3, ... in order, one
\* at a time, at most max_pages of them, none after a page that was an error
\* record, empty or short; with max_pages <= 0 none, and the empty list.
PagesInOrder ==
  InPaginate =>
    /\ \A i \in DOMAIN requests :
         /\ requests[i].endpoint = Endpoint("search/tickets")
         /\ requests[i].data.d.page.i = i
         /\ requests[i].data.d.per_page.i = call.per_page
    /\ inflight \in { 0, 1 }
    /\ inflight = Len(requests) - Len(responses)
    /\ Len(requests) <= (IF call.max_pages > 0 THEN call.max_pages ELSE 0)
    /\ \A i \in DOMAIN responses : i < Len(requests) => ~StopPage(i)
    /\ pc \in { "send", "wait" } =>
         /\ 1 <= page /\ page <= call.max_pages
         /\ page = Len(responses) + 1
         /\ Len(requests) = IF pc = "send" THEN page - 1 ELSE page
    /\ pc \in { "send", "wait", "done" }
    /\ call.max_pages <= 0 =>
         /\ pc = "done" /\ requests = <<>>
         /\ result = JList(<<>>)

\* C9: a paginate_tickets run asks for the pages 1, 2, 3, ... in strictly
\* increasing consecutive order with at most one request in flight, at most
\* max_pages in total, none after a page that was an error record, empty or
\* short, and the loop terminates (with max_pages <= 0 without a request,
\* returning the empty list).
C9_SequentialPages ==
  /\ []PagesInOrder
  /\ (InPaginate /\ pc # "done") ~> (pc = "done")

\* All max_pages pages were asked for, in order, and the run is over.
C9_Witness ==
  /\ Done("paginate_tickets") /\ call.max_pages = MaxMaxPages
  /\ Len(requests) = MaxMaxPages /\ MaxMaxPages >= 2
  /\ \A i \in DOMAIN requests : requests[i].data.d.page.i = i
  /\ \A i \in DOMAIN responses : ~StopPage(i)

\* C10: search with a non-blank query never returns an error record: when
\* the adapter yields an error record on page k it returns {results: the
\* summaries of pages 1..k-1}, with no error field.
WellFormedTicket(t) ==
  /\ IsDict(t)
  /\ "description_text" \in DOMAIN t.d => t.d.description_text.tag = "str"

C10_SearchHidesErrors ==
  (Done("search") /\ ~OnlyWhitespace(call.query)) =>
    /\ ~IsErrorRecord(result)
    /\ ~IsRaise(result) => (IsDict(result) /\ DOMAIN result.d = { "results" })
    /\ \A k \in DOMAIN responses :
         LET before == ConcatPages(k - 1)
         IN  ( /\ ErrorPage(k)
               /\ \A i \in 1..(k - 1) : ResultsPage(i)
               /\ \A j \in DOMAIN before : WellFormedTicket(before[j]) )
             => /\ k = Len(responses)
                /\ IsDict(result) /\ DOMAIN result.d = { "results" }
                /\ Len(result.d.results.l) = Len(before)
                /\ \A j \in DOMAIN before :
                     /\ result.d.results.l[j].d.id = before[j].d.id
                     /\ result.d.results.l[j].d.url = TicketUrl(before[j].d.id)

\* The second page failed and the first page's 50 summaries are the result.
C10_Witness ==
  /\ Done("search") /\ Len(responses) = 2
  /\ Served(2) = HttpError(429) /\ PageSize(1) = 50
  /\ IsDict(result) /\ DOMAIN result.d = { "results" }
  /\ Len(result.d.results.l) = 50

====
